---- MODULE Spec2Model ----
(***************************************************************************)
(* express-ctx: request- and session-scoped key/value contexts bound to    *)
(* the running request through AsyncLocalStorage.                          *)
(*                                                                         *)
(* The model follows Node's cooperative scheduling: one synchronous        *)
(* execution runs at a time (cur), and executions interleave only between  *)
(* middleware invocations, continuations, timers and 'finish' events.      *)
(*                                                                         *)
(* Two middlewares are modelled, each with the MyContext class it imports: *)
(*   SpecFresh    dist/src/context-middleware.js  + MyContext of part_002  *)
(*   SpecSession  unnamed/part_001 (435-506)      + MyContext of ctx.ts    *)
(*                                                  (TTL variant, 57-150)  *)
(* Two more specifications drive one MyContext object directly:            *)
(*   SpecCtx      hook / set / get / clear with callbacks, both classes     *)
(*   SpecTtl      the TTL variant under the clock: ttl, timers, expiry      *)
(* Further specifications:                                                 *)
(*   SpecShared   src/index.ts (77-87): one MyContext for every request    *)
(*   SpecMulti    several session-reuse instances, one module-level table  *)
(*   SpecHooks    session-reuse with onClear callbacks on the handles      *)
(*   SpecReg      dispatch with callbacks that register callbacks          *)
(* In SpecFresh and SpecSession                                            *)
(* hook callbacks are application code: a callback that calls set/get/     *)
(* clear is covered by the App* actions of the extent that dispatches it;  *)
(* no callback is registered when the middleware itself calls set.         *)
(***************************************************************************)
EXTENDS Integers, Sequences, FiniteSets, TLC

\* ---------------------------------------------------------------- bounds
NumRequests == 2
MaxConts == 1
MaxTimers == 1

Requests == 1..NumRequests

\* ------------------------------------------------------------ JS values
Undefined == "undefined"
\* the value request r passes to set(): each request writes its own value
\* (req.query.id in the concurrency tests)
ValueOf(r) == "v" \o ToString(r)
\* a defined but falsy value (the empty string)
Falsy == ""
\* JavaScript truthiness of the modelled values (!value, a || b)
Truthy(v) == v # Undefined /\ v # ""
\* a || b
JsOr(a, b) == IF Truthy(a) THEN a ELSE b

\* keys application code sets and clears / keys the claims read
UserKeys == {"k"}
DefaultKey == "dflt"
ReadKeys == UserKeys \cup {DefaultKey, "contextId", "sessionId"}

\* asyncLocalStorage.getStore() === undefined
NoContext == 0
\* nothing is running (event loop between callbacks)
Idle == [req |-> 0, kind |-> "idle"]

\* ------------------------------------------------------------ Map helpers
EmptyMap == [x \in {} |-> Undefined]
MapHas(m, k) == k \in DOMAIN m
MapSet(m, k, v) == [x \in (DOMAIN m) \cup {k} |-> IF x = k THEN v ELSE m[x]]
MapDelete(m, k) == [x \in (DOMAIN m) \ {k} |-> m[x]]

\* ------------------------------------------------------- plain JS objects
\* a property name every plain object inherits from Object.prototype
InheritedKey == "toString"
\* Object.prototype, as far as the modelled keys reach it
ObjectPrototype == [x \in {InheritedKey} |-> "[Function]"]
\* key in obj: own properties and those of the prototype chain
JsIn(key, obj) == key \in DOMAIN obj \/ key \in DOMAIN ObjectPrototype
\* obj[key]
JsProp(obj, key) ==
  IF key \in DOMAIN obj THEN obj[key]
  ELSE IF key \in DOMAIN ObjectPrototype THEN ObjectPrototype[key]
  ELSE Undefined

\* ------------------------------------------------------------ hook events
Events == {"beforeGet", "afterSet", "onClear", "onSet", "onError"}
\* this.hooks = { beforeGet: [], afterSet: [], onClear: [], onSet: [], onError: [] }
NoHooks == [e \in Events |-> <<>>]
\* no MyContext operation has been made yet
NoOp == [op |-> "none", key |-> Undefined, value |-> Undefined, ttl |-> -1,
         at |-> 0, before |-> EmptyMap, result |-> Undefined,
         threw |-> FALSE, calls |-> <<>>, sched |-> FALSE]

VARIABLES
  heap,          \* every MyContext constructed so far; a handle is its index
  contextStore,  \* module-level Map: id -> handle
  nextUuid,      \* number of uuidv4() calls made
  pc,            \* per request: "new","pre","next","returned","threw"
  cur,           \* the synchronous execution now running
  alsStore,      \* asyncLocalStorage.getStore() of the running execution
  alsSaved,      \* store that the enclosing run() restores on exit
  reqContext,    \* req.context per request
  reqKey,        \* the closure's contextId / sessionId per request
  headers,       \* per request: x-session-id and authorization
  conts,         \* pending asynchronous continuations with captured store
  spawned,       \* continuations spawned so far
  listener,      \* res.on('finish', ...) registered
  finished,      \* the response-finished event has fired
  timers,        \* pending setTimeout(clearKey) per <<handle, key>>
  options,       \* the options the middleware factory was called with
  lateKeys,      \* history: keys set for request r after its finish event
  lastSet,       \* history: identity key -> key -> value of the last set call
  created,       \* history: identity key -> number of MyContext constructed
  klass,         \* which MyContext class the program imported: "ttl"/"typed"
  hooks,         \* this.hooks: event -> sequence of registered callbacks
  nextHook,      \* number of hook() calls made
  now,           \* the clock, in timer ticks
  pending,       \* setTimeout callbacks not yet run: sequence of [key, due]
  last,          \* history: the last MyContext operation and its outcome
  wrote          \* history: key -> the last set call made for that key

\* state of a MyContext used directly (hooks, clock, timers, history)
libVars == <<klass, hooks, nextHook, now, pending, last, wrote>>

\* state of the middleware modules around the MyContext objects
mwVars == <<contextStore, nextUuid, pc, cur, alsStore, alsSaved,
            reqContext, reqKey, headers, conts, spawned, listener, finished,
            timers, options, lateKeys, lastSet, created>>

vars == <<heap, mwVars, libVars>>

\* ------------------------------------------- MyContext, typed-hooks variant
\* constructor(options): storage empty, defaultValues = options
ctx_new(opts) == [storage |-> EmptyMap, defaultValues |-> opts,
                  globalExpiry |-> 0]

\* set(key, value): undefined is ignored, otherwise the entry is replaced
ctx_set(c, key, value) ==
  IF value = Undefined THEN c
  ELSE [c EXCEPT !.storage = MapSet(@, key, value)]

\* get(key): live entry, else key in defaultValues (an inherited property
\* name counts), else undefined
ctx_get(c, key) ==
  IF MapHas(c.storage, key) THEN c.storage[key]
  ELSE IF JsIn(key, c.defaultValues) THEN JsProp(c.defaultValues, key)
  ELSE Undefined

\* clearKey(key)
ctx_clearKey(c, key) ==
  IF MapHas(c.storage, key) THEN [c EXCEPT !.storage = MapDelete(@, key)]
  ELSE c

\* clear(key): '*' empties the storage, anything else goes to clearKey
ctx_clear(c, key) ==
  IF key = "*" THEN [c EXCEPT !.storage = EmptyMap]
  ELSE ctx_clearKey(c, key)

\* --------------------------------------------------- MyContext, TTL variant
\* an omitted ttl argument / no expiry configured (undefined)
NoTtl == -1

\* constructor(options): storage empty, defaultValues and globalExpiry taken
\* from the options (an omitted field is EmptyMap / NoTtl in cfg)
ttl_new(cfg) ==
  [storage |-> EmptyMap, defaultValues |-> cfg.defaultValues,
   globalExpiry |-> cfg.expiry]

\* const expiry = ttl ?? this.globalExpiry
ttl_expiry(c, ttl) == IF ttl # NoTtl THEN ttl ELSE c.globalExpiry

\* a set that keeps no entry but the one it writes
ttl_setAlone(c, key, value, ttl) ==
  IF ~Truthy(value) THEN c
  ELSE [c EXCEPT !.storage =
          MapSet(EmptyMap, key,
                 [value |-> value, expiry |-> ttl_expiry(c, ttl)])]

\* set(key, value, ttl): a falsy value returns at once (if (!value) return),
\* otherwise the entry { value, expiry } replaces the old one
ttl_set(c, key, value, ttl) ==
  IF ~Truthy(value) THEN c
  ELSE [c EXCEPT !.storage =
          MapSet(@, key, [value |-> value, expiry |-> ttl_expiry(c, ttl)])]

\* set(...) reaches setTimeout(() => this.clearKey(key), expiry): if (expiry)
ttl_schedules(c, value, ttl) ==
  Truthy(value) /\ ttl_expiry(c, ttl) # NoTtl /\ ttl_expiry(c, ttl) # 0

\* get(key): live entry, else key in defaultValues, else the thrown
\* "not found" error is caught and undefined is returned
ttl_get(c, key) ==
  IF MapHas(c.storage, key) THEN c.storage[key].value
  ELSE IF JsIn(key, c.defaultValues) THEN JsProp(c.defaultValues, key)
  ELSE Undefined

\* a clearKey that drops every live entry along with the one of key
ttl_clearKeyWipes(c, key) ==
  IF MapHas(c.storage, key) THEN [c EXCEPT !.storage = EmptyMap] ELSE c

\* clearKey(key)
ttl_clearKey(c, key) ==
  IF MapHas(c.storage, key) THEN [c EXCEPT !.storage = MapDelete(@, key)]
  ELSE c

\* clear(key): '*' or undefined empties the storage, else clearKey(key)
ttl_clear(c, key) ==
  IF key = "*" \/ key = Undefined THEN [c EXCEPT !.storage = EmptyMap]
  ELSE ttl_clearKey(c, key)

\* ---------------------------------------------------- AsyncLocalStorage
\* asyncLocalStorage.getStore()
useContext == alsStore

\* a module-level "current context" instead of AsyncLocalStorage: the
\* continuation sees the context of the request that was bound last
ContStoreGlobal(c) == Len(heap)

\* store seen by a continuation: the one current when it was created
ContStore(c) == c.store

\* enterWith-like binding that is undone only when fn returns normally
AlsRunExitNoFinally(saved, inside, threw) == IF threw THEN inside ELSE saved

\* store after run(store, fn) has left fn, normally or by an exception
AlsRunExit(saved, inside, threw) == saved

\* uuidv4(): a value no earlier call returned
uuidv4(n) == "uuid-" \o ToString(n)

\* one shared instance handed to every request
NewHandleShared(h) == 1

\* handle that new MyContext(...) yields: an object distinct from all others
NewHandle(h) == Len(h) + 1

\* object identity: the heap after new MyContext(...) was stored at handle h
HeapPut(hp, h, c) ==
  IF h = Len(hp) + 1 THEN Append(hp, c) ELSE [hp EXCEPT ![h] = c]

\* ------------------------------------------------------------------ Init
InitCommon ==
  /\ heap = <<>>
  /\ contextStore = EmptyMap
  /\ nextUuid = 0
  /\ pc = [r \in Requests |-> "new"]
  /\ cur = Idle
  /\ alsStore = NoContext
  /\ alsSaved = NoContext
  /\ reqContext = [r \in Requests |-> NoContext]
  /\ reqKey = [r \in Requests |-> Undefined]
  /\ headers = [r \in Requests |-> [xsid |-> Undefined, auth |-> Undefined]]
  /\ conts = {}
  /\ spawned = 0
  /\ listener = [r \in Requests |-> FALSE]
  /\ finished = [r \in Requests |-> FALSE]
  /\ timers = EmptyMap
  /\ lateKeys = [r \in Requests |-> {}]
  /\ lastSet = EmptyMap
  /\ created = EmptyMap
  /\ hooks = NoHooks
  /\ nextHook = 0
  /\ now = 0
  /\ pending = <<>>
  /\ last = NoOp
  /\ wrote = EmptyMap

\* contextMiddleware(options) of the fresh-per-request middleware: the
\* options object itself becomes defaultValues; one key has a default, the
\* other keys have none
FreshOptions == [x \in {DefaultKey} |-> "d"]

InitFresh ==
  /\ InitCommon
  /\ options = FreshOptions
  /\ klass = "typed"

\* code of request r is running inside its bound extent
InExtent == cur.kind \in {"next", "cont"}

\* --------------------------------------------------------- shared steps
\* a request reaches the pipeline; stages before the middleware run first
Arrive(r) ==
  /\ cur = Idle
  /\ pc[r] = "new"
  /\ pc' = [pc EXCEPT ![r] = "pre"]
  /\ cur' = [req |-> r, kind |-> "pre"]
  /\ UNCHANGED <<heap, contextStore, nextUuid, alsStore, alsSaved,
                 reqContext, reqKey, headers, conts, spawned, listener,
                 finished, timers, options, lateKeys, lastSet,
                 created, libVars>>

\* the code that invoked the middleware runs on and then returns
CallerDone ==
  /\ cur.kind = "caller"
  /\ cur' = Idle
  /\ UNCHANGED <<heap, contextStore, nextUuid, pc, alsStore, alsSaved,
                 reqContext, reqKey, headers, conts, spawned, listener,
                 finished, timers, options, lateKeys, lastSet,
                 created, libVars>>

\* code inside the extent starts asynchronous work (await, setImmediate...)
AppSpawn ==
  /\ InExtent
  /\ spawned < MaxConts
  /\ [req |-> cur.req, store |-> useContext] \notin conts
  /\ conts' = conts \cup {[req |-> cur.req, store |-> useContext]}
  /\ spawned' = spawned + 1
  /\ UNCHANGED <<heap, contextStore, nextUuid, pc, cur, alsStore, alsSaved,
                 reqContext, reqKey, headers, listener, finished, timers,
                 options, lateKeys, lastSet, created, libVars>>

\* the event loop resumes a continuation in the store it captured
RunCont(c) ==
  /\ cur = Idle
  /\ c \in conts
  /\ conts' = conts \ {c}
  /\ cur' = [req |-> c.req, kind |-> "cont"]
  /\ alsStore' = ContStore(c)
  /\ UNCHANGED <<heap, contextStore, nextUuid, pc, alsSaved, reqContext,
                 reqKey, headers, spawned, listener, finished, timers,
                 options, lateKeys, lastSet, created, libVars>>

\* the continuation returns to the event loop
EndCont ==
  /\ cur.kind = "cont"
  /\ cur' = Idle
  /\ alsStore' = NoContext
  /\ UNCHANGED <<heap, contextStore, nextUuid, pc, alsSaved, reqContext,
                 reqKey, headers, conts, spawned, listener, finished, timers,
                 options, lateKeys, lastSet, created, libVars>>

\* history: request r set key after its response-finished event
NoteWrite(r, key) ==
  lateKeys' = IF finished[r] THEN [lateKeys EXCEPT ![r] = @ \cup {key}]
              ELSE lateKeys

\* ------------------------------------------- fresh-per-request middleware
\* (req, res, next) => { ... asyncLocalStorage.run(context, () => {
\*   req.context = context; next() ...   up to the call of next()
FreshMiddleware(r) ==
  /\ cur = [req |-> r, kind |-> "pre"]
  /\ LET contextId == uuidv4(nextUuid + 1)
         h == NewHandle(heap)
         context == ctx_set(ctx_new(options), "contextId", contextId)
     IN /\ nextUuid' = nextUuid + 1
        /\ heap' = HeapPut(heap, h, context)
        /\ contextStore' = MapSet(contextStore, contextId, h)
        /\ alsSaved' = alsStore
        /\ alsStore' = h
        /\ reqContext' = [reqContext EXCEPT ![r] = h]
        /\ reqKey' = [reqKey EXCEPT ![r] = contextId]
        /\ NoteWrite(r, "contextId")
  /\ pc' = [pc EXCEPT ![r] = "next"]
  /\ cur' = [req |-> r, kind |-> "next"]
  /\ UNCHANGED <<headers, conts, spawned, listener, finished, timers,
                 options, lastSet, created, libVars>>

\* next() returned: run() restores the store, then res.on('finish', ...)
FreshNextReturn(r) ==
  /\ cur = [req |-> r, kind |-> "next"]
  /\ alsStore' = AlsRunExit(alsSaved, alsStore, FALSE)
  /\ listener' = [listener EXCEPT ![r] = TRUE]
  /\ pc' = [pc EXCEPT ![r] = "returned"]
  /\ cur' = [req |-> r, kind |-> "caller"]
  /\ UNCHANGED <<heap, contextStore, nextUuid, alsSaved, reqContext, reqKey,
                 headers, conts, spawned, finished, timers, options, lateKeys, lastSet, created, libVars>>

\* next() threw: run() restores the store and the exception leaves the
\* middleware before res.on('finish', ...) is reached
FreshNextThrow(r) ==
  /\ cur = [req |-> r, kind |-> "next"]
  /\ alsStore' = AlsRunExit(alsSaved, alsStore, TRUE)
  /\ pc' = [pc EXCEPT ![r] = "threw"]
  /\ cur' = [req |-> r, kind |-> "caller"]
  /\ UNCHANGED <<heap, contextStore, nextUuid, alsSaved, reqContext, reqKey,
                 headers, conts, spawned, listener, finished, timers, options,
                 lateKeys, lastSet, created, libVars>>

\* the response-finished event fires; the registered listener runs
\* asyncLocalStorage.exit(() => { context.clear(contextId);
\*                                contextStore.delete(contextId) })
FreshFinish(r) ==
  /\ cur = Idle
  /\ pc[r] \in {"returned", "threw"}
  /\ ~finished[r]
  /\ finished' = [finished EXCEPT ![r] = TRUE]
  /\ IF listener[r]
     THEN /\ heap' = [heap EXCEPT ![reqContext[r]] = ctx_clear(@, reqKey[r])]
          /\ contextStore' = MapDelete(contextStore, reqKey[r])
     ELSE UNCHANGED <<heap, contextStore>>
  /\ UNCHANGED <<nextUuid, pc, cur, alsStore, alsSaved, reqContext, reqKey,
                 headers, conts, spawned, listener, timers, options, lateKeys, lastSet, created, libVars>>

\* application code in the extent: useContext().set(key, value)
FreshAppSet(key, value) ==
  /\ InExtent
  /\ useContext # NoContext
  /\ heap' = [heap EXCEPT ![useContext] = ctx_set(@, key, value)]
  /\ IF value = Undefined THEN UNCHANGED lateKeys
     ELSE NoteWrite(cur.req, key)
  /\ UNCHANGED <<contextStore, nextUuid, pc, cur, alsStore, alsSaved,
                 reqContext, reqKey, headers, conts, spawned, listener,
                 finished, timers, options, lastSet, created, libVars>>

\* application code in the extent: useContext().clear(key)
FreshAppClear(key) ==
  /\ InExtent
  /\ useContext # NoContext
  /\ heap' = [heap EXCEPT ![useContext] = ctx_clear(@, key)]
  /\ heap' # heap
  /\ UNCHANGED <<contextStore, nextUuid, pc, cur, alsStore, alsSaved,
                 reqContext, reqKey, headers, conts, spawned, listener,
                 finished, timers, options, lateKeys, lastSet,
                 created, libVars>>

NextFresh ==
  \/ \E r \in Requests : Arrive(r)
  \/ \E r \in Requests : FreshMiddleware(r)
  \/ \E r \in Requests : FreshNextReturn(r)
  \/ \E r \in Requests : FreshNextThrow(r)
  \/ \E r \in Requests : FreshFinish(r)
  \/ \E k \in UserKeys, v \in {ValueOf(cur.req), Undefined} :
        FreshAppSet(k, v)
  \/ \E k \in UserKeys \cup {"*"} : FreshAppClear(k)
  \/ AppSpawn
  \/ \E c \in conts : RunCont(c)
  \/ EndCont
  \/ CallerDone

SpecFresh == InitFresh /\ [][NextFresh]_vars

\* ----------------------------------------------- session-reuse middleware
\* header values a request may carry: absent, empty, or a token
XsidValues == {Undefined, "", "A"}
AuthValues == {Undefined, "B"}

\* contextMiddleware({ contextConfig }): without and with a global expiry
SessionConfigs ==
  {[defaultValues |-> [x \in {DefaultKey} |-> "d"], expiry |-> NoTtl],
   [defaultValues |-> [x \in {DefaultKey} |-> "d"], expiry |-> 1]}

\* ttl arguments application code passes to set(): omitted or a duration
TtlArgs == {NoTtl, 1}

InitSession ==
  /\ InitCommon
  /\ options \in SessionConfigs
  /\ klass = "ttl"

\* precedence that looks at the authorization header first
ResolveSessionIdAuthFirst(hd) ==
  JsOr(JsOr(hd.auth, hd.xsid), "default-session")

\* req.headers['x-session-id'] || req.headers.authorization || 'default-session'
ResolveSessionId(hd) == JsOr(JsOr(hd.xsid, hd.auth), "default-session")

\* a lookup that never finds the session
StoreHasNever(store, sid) == FALSE

\* contextStore.has(sessionId)
StoreHas(store, sid) == MapHas(store, sid)

\* pending timers after one more setTimeout for <<h, key>>
TimerAdd(tm, h, key) ==
  MapSet(tm, <<h, key>>, IF MapHas(tm, <<h, key>>) THEN tm[<<h, key>>] + 1 ELSE 1)

\* pending timers after the one for <<h, key>> fired
TimerDrop(tm, h, key) ==
  IF tm[<<h, key>>] = 1 THEN MapDelete(tm, <<h, key>>)
  ELSE MapSet(tm, <<h, key>>, tm[<<h, key>>] - 1)

\* number of pending timers
TimerCount(tm) ==
  LET RECURSIVE Sum(_)
      Sum(D) == IF D = {} THEN 0
                ELSE LET d == CHOOSE x \in D : TRUE IN tm[d] + Sum(D \ {d})
  IN Sum(DOMAIN tm)

\* history: a request under identity sid called set(key, value)
NoteSet(ls, sid, key, value) ==
  MapSet(ls, sid, MapSet(IF MapHas(ls, sid) THEN ls[sid] ELSE EmptyMap, key, value))

\* history: the keys ks of handle h were cleared or expired
NoteClear(ls, h, ks) ==
  [sid \in DOMAIN ls |->
     IF MapHas(contextStore, sid) /\ contextStore[sid] = h
     THEN [k \in (DOMAIN ls[sid]) \ ks |-> ls[sid][k]]
     ELSE ls[sid]]

\* a request arrives carrying its headers
ArriveSession(r, x, a) ==
  /\ cur = Idle
  /\ pc[r] = "new"
  /\ pc' = [pc EXCEPT ![r] = "pre"]
  /\ cur' = [req |-> r, kind |-> "pre"]
  /\ headers' = [headers EXCEPT ![r] = [xsid |-> x, auth |-> a]]
  /\ UNCHANGED <<heap, contextStore, nextUuid, alsStore, alsSaved,
                 reqContext, reqKey, conts, spawned, listener, finished,
                 timers, options, lateKeys, lastSet, created, libVars>>

\* (req, res, next) => { sessionId = ...; if (!contextStore.has(sessionId))
\*   contextStore.set(sessionId, new MyContext(contextConfig));
\*   context = contextStore.get(sessionId); context.set('sessionId', sessionId);
\*   asyncLocalStorage.run(context, () => { req.context = context; next() ...
contextMiddleware(r, contextConfig) ==
  /\ cur = [req |-> r, kind |-> "pre"]
  /\ LET sessionId == ResolveSessionId(headers[r])
         isNew == ~StoreHas(contextStore, sessionId)
         fresh == NewHandle(heap)
         heap1 == IF isNew THEN HeapPut(heap, fresh, ttl_new(contextConfig))
                  ELSE heap
         store1 == IF isNew THEN MapSet(contextStore, sessionId, fresh)
                   ELSE contextStore
         context == store1[sessionId]
     IN /\ contextStore' = store1
        /\ heap' = [heap1 EXCEPT
                      ![context] = ttl_set(@, "sessionId", sessionId, NoTtl)]
        /\ timers' = IF ttl_schedules(heap1[context], sessionId, NoTtl)
                     THEN TimerAdd(timers, context, "sessionId") ELSE timers
        /\ alsSaved' = alsStore
        /\ alsStore' = context
        /\ reqContext' = [reqContext EXCEPT ![r] = context]
        /\ reqKey' = [reqKey EXCEPT ![r] = sessionId]
        /\ created' = IF isNew
                      THEN MapSet(created, sessionId,
                                  Append(IF MapHas(created, sessionId)
                                         THEN created[sessionId] ELSE <<>>, fresh))
                      ELSE created
        /\ lastSet' = NoteSet(lastSet, sessionId, "sessionId", sessionId)
  /\ pc' = [pc EXCEPT ![r] = "next"]
  /\ cur' = [req |-> r, kind |-> "next"]
  /\ UNCHANGED <<nextUuid, headers, conts, spawned, listener, finished,
                 options, lateKeys, libVars>>

\* the stage contextMiddleware({ contextConfig: options }) returned
SessionMiddleware(r) == contextMiddleware(r, options)

\* next() returned or threw: run() restores the store, and the middleware
\* returns or lets the exception through; nothing else follows run()
SessionNextExit(r, threw) ==
  /\ cur = [req |-> r, kind |-> "next"]
  /\ alsStore' = AlsRunExit(alsSaved, alsStore, threw)
  /\ pc' = [pc EXCEPT ![r] = "returned"]
  /\ cur' = [req |-> r, kind |-> "caller"]
  /\ UNCHANGED <<heap, contextStore, nextUuid, alsSaved, reqContext, reqKey,
                 headers, conts, spawned, listener, finished, timers, options,
                 lateKeys, lastSet, created, libVars>>

\* application code in the extent: getContext().set(key, value, ttl)
SessionAppSet(key, value, ttl) ==
  /\ InExtent
  /\ useContext # NoContext
  /\ ttl_schedules(heap[useContext], value, ttl) => TimerCount(timers) < MaxTimers
  /\ heap' = [heap EXCEPT ![useContext] = ttl_set(@, key, value, ttl)]
  /\ timers' = IF ttl_schedules(heap[useContext], value, ttl)
               THEN TimerAdd(timers, useContext, key) ELSE timers
  /\ lastSet' = IF value = Undefined THEN lastSet
                ELSE NoteSet(lastSet, reqKey[cur.req], key, value)
  /\ UNCHANGED <<contextStore, nextUuid, pc, cur, alsStore, alsSaved,
                 reqContext, reqKey, headers, conts, spawned, listener,
                 finished, options, lateKeys, created, libVars>>

\* application code in the extent: getContext().clear(key)
SessionAppClear(key) ==
  /\ InExtent
  /\ useContext # NoContext
  /\ heap' = [heap EXCEPT ![useContext] = ttl_clear(@, key)]
  /\ heap' # heap
  /\ lastSet' = NoteClear(lastSet, useContext,
                          IF key = "*" \/ key = Undefined
                          THEN DOMAIN heap[useContext].storage ELSE {key})
  /\ UNCHANGED <<contextStore, nextUuid, pc, cur, alsStore, alsSaved,
                 reqContext, reqKey, headers, conts, spawned, listener,
                 finished, timers, options, lateKeys, created, libVars>>

\* a timer scheduled by set fires: this.clearKey(key)
TimerFire(h, key) ==
  /\ cur = Idle
  /\ MapHas(timers, <<h, key>>)
  /\ timers' = TimerDrop(timers, h, key)
  /\ heap' = [heap EXCEPT ![h] = ttl_clearKey(@, key)]
  /\ lastSet' = IF MapHas(heap[h].storage, key)
                THEN NoteClear(lastSet, h, {key}) ELSE lastSet
  /\ UNCHANGED <<contextStore, nextUuid, pc, cur, alsStore, alsSaved,
                 reqContext, reqKey, headers, conts, spawned, listener,
                 finished, options, lateKeys, created, libVars>>

NextSession ==
  \/ \E r \in Requests, x \in XsidValues, a \in AuthValues : ArriveSession(r, x, a)
  \/ \E r \in Requests : SessionMiddleware(r)
  \/ \E r \in Requests, threw \in BOOLEAN : SessionNextExit(r, threw)
  \/ \E k \in UserKeys, v \in {ValueOf(cur.req), Falsy, Undefined},
        t \in TtlArgs : SessionAppSet(k, v, t)
  \/ \E k \in UserKeys \cup {"*"} : SessionAppClear(k)
  \/ \E tk \in DOMAIN timers : TimerFire(tk[1], tk[2])
  \/ AppSpawn
  \/ \E c \in conts : RunCont(c)
  \/ EndCont
  \/ CallerDone

SpecSession == InitSession /\ [][NextSession]_vars

\* ====================================================== claims, SpecFresh
\* values request r itself put into its context
OwnValues(r) == {ValueOf(r), reqKey[r]}

\* get(key) fell back to the configured default or to absence
DefaultOrAbsent(c, key, v) ==
  \/ v = Undefined
  \/ key \in DOMAIN c.defaultValues /\ v = c.defaultValues[key]

\* the middleware has run for r and its finished event has not fired
InFlight(r) == pc[r] \in {"next", "returned", "threw"} /\ ~finished[r]

\* C1: whatever the interleaving, code running inside request R's bound
\* extent (the synchronous part under next() or a continuation spawned in it)
\* gets from useContext() exactly R's req.context, and never the handle of
\* another request.
C1_AmbientIsOwnHandle ==
  InExtent =>
    /\ useContext # NoContext
    /\ useContext = reqContext[cur.req]
    /\ \A r \in Requests \ {cur.req} : reqContext[r] # useContext

\* C1 witness: a continuation of one request runs while a request whose
\* middleware ran later is still in flight
C1_Witness ==
  /\ cur.kind = "cont"
  /\ \E r \in Requests : /\ r # cur.req
                         /\ InFlight(r)
                         /\ reqContext[r] > reqContext[cur.req]

C4_NoReadAfterFinish ==
  \A r \in Requests :
    (finished[r] /\ cur # Idle /\ useContext # NoContext
       /\ useContext = reqContext[r])
      => \A k \in ReadKeys \ lateKeys[r] :
           DefaultOrAbsent(heap[useContext], k, ctx_get(heap[useContext], k))

\* C5 (as claimed): after the response-finished handler of a request has run,
\* the live storage of its MyContext is empty ('contextId' included) and
\* get(K) gives only default-or-absence.
C5_StorageEmptyAfterFinish ==
  \A r \in Requests :
    (finished[r] /\ listener[r] /\ lateKeys[r] = {})
      => /\ heap[reqContext[r]].storage = EmptyMap
         /\ \A k \in ReadKeys :
              DefaultOrAbsent(heap[reqContext[r]], k,
                              ctx_get(heap[reqContext[r]], k))

\* C6 (as claimed): contextStore holds exactly the handles of the requests
\* whose middleware has run and whose finished event has not fired, each
\* under its own id.
C6_StoreIsInFlight ==
  /\ DOMAIN contextStore = {reqKey[r] : r \in {q \in Requests : InFlight(q)}}
  /\ \A r \in Requests : InFlight(r) => contextStore[reqKey[r]] = reqContext[r]

\* C7: once the middleware has returned to its caller -- next() returned or
\* threw -- the caller, and the stages of a later request that run before the
\* middleware, get undefined from the ambient accessor.
C7_UnboundOutsideExtent ==
  cur.kind \in {"caller", "pre"} => useContext = NoContext

\* C7 witness: the caller runs on after next() threw out of the middleware
C7_Witness ==
  /\ cur.kind = "caller"
  /\ pc[cur.req] = "threw"
  /\ reqContext[cur.req] # NoContext

\* ==================================================== claims, SpecSession
\* the middleware has run for request r
Bound(r) == reqContext[r] # NoContext

\* C2 (as claimed): for two distinct identity keys A and B whose requests
\* both called set(K, .), every later get(K) under A returns the value set
\* under A and every later get(K) under B the value set under B (lastSet
\* forgets K when K is cleared or expires).
C2_DistinctKeysIsolated ==
  \A a, b \in DOMAIN contextStore :
    (a # b /\ MapHas(lastSet, a) /\ MapHas(lastSet, b)) =>
      \A k \in (DOMAIN lastSet[a]) \cap (DOMAIN lastSet[b]) :
        /\ ttl_get(heap[contextStore[a]], k) = lastSet[a][k]
        /\ ttl_get(heap[contextStore[b]], k) = lastSet[b][k]

\* C8: exactly one MyContext is ever constructed per identity key, the table
\* entry of a key is the handle constructed first and is never replaced or
\* removed, every request binds the entry of its key, and distinct keys map
\* to distinct handles.
C8_OneHandlePerKey ==
  /\ DOMAIN created = DOMAIN contextStore
  /\ \A k \in DOMAIN contextStore :
       /\ Len(created[k]) = 1
       /\ contextStore[k] = created[k][1]
  /\ \A a, b \in DOMAIN contextStore : a # b => contextStore[a] # contextStore[b]
  /\ Len(heap) = Cardinality(DOMAIN contextStore)
  /\ \A r \in Requests :
       Bound(r) => /\ MapHas(contextStore, reqKey[r])
                   /\ reqContext[r] = contextStore[reqKey[r]]

\* C8 witness: a second request with an already known key has bound the
\* handle that the first request with that key created
C8_Witness ==
  \E r1, r2 \in Requests :
    /\ r1 # r2
    /\ Bound(r1) /\ Bound(r2)
    /\ reqKey[r1] = reqKey[r2]
    /\ reqContext[r1] = reqContext[r2]

\* C9 (as claimed): the key is the x-session-id header value if the request
\* carries that header, else the authorization header value if the request
\* carries that header, else 'default-session'; the bound handle is the
\* table entry of that key.
C9_PrecedenceIfCarried ==
  \A r \in Requests :
    Bound(r) =>
      /\ reqKey[r] = IF headers[r].xsid # Undefined THEN headers[r].xsid
                     ELSE IF headers[r].auth # Undefined THEN headers[r].auth
                     ELSE "default-session"
      /\ reqContext[r] = contextStore[reqKey[r]]

\* C9 (amended): the key is the x-session-id header value if the request
\* carries a non-empty one, else the authorization header value if the
\* request carries a non-empty one, else 'default-session'; the bound handle
\* is the table entry of that key.
C9_PrecedenceIfNonEmpty ==
  \A r \in Requests :
    Bound(r) =>
      /\ reqKey[r] =
           IF headers[r].xsid \notin {Undefined, ""} THEN headers[r].xsid
           ELSE IF headers[r].auth \notin {Undefined, ""} THEN headers[r].auth
           ELSE "default-session"
      /\ reqContext[r] = contextStore[reqKey[r]]

\* C9 witness: a request carrying both headers is bound under its
\* x-session-id, and one carrying an empty x-session-id under its
\* authorization value
C9_Witness ==
  \E r1, r2 \in Requests :
    /\ Bound(r1) /\ Bound(r2)
    /\ headers[r1] = [xsid |-> "A", auth |-> "B"] /\ reqKey[r1] = "A"
    /\ headers[r2] = [xsid |-> "", auth |-> "B"] /\ reqKey[r2] = "B"

\* C10 (as claimed): two requests bound under the same identity key share one
\* handle, and get(K) from either returns the value of the set(K, .) that
\* executed last (lastSet forgets K when K is cleared or expires).
C10_SameKeyLastWriteWins ==
  \A r1, r2 \in Requests :
    (r1 # r2 /\ Bound(r1) /\ Bound(r2) /\ reqKey[r1] = reqKey[r2]) =>
      /\ reqContext[r1] = reqContext[r2]
      /\ \A k \in DOMAIN lastSet[reqKey[r1]] :
           /\ ttl_get(heap[reqContext[r1]], k) = lastSet[reqKey[r1]][k]
           /\ ttl_get(heap[reqContext[r2]], k) = lastSet[reqKey[r1]][k]

\* ================================================ MyContext used directly
\* One MyContext object, constructed by the program and driven through
\* hook / set / get / clear while the clock advances and timers fire
\* (the usage of tests/myctx.test.ts).  klass selects the class: "ttl" is
\* src/src/ctx.ts 57-150, "typed" is src/unnamed/part_002 102-204.
MaxHooks == 2
MaxStack == 2
MaxTime == 2
MaxPending == 2

\* keys the program uses: one without default, one with a configured
\* default, one that only Object.prototype knows
CtxKeys == {"k", DefaultKey, InheritedKey}
\* ttl arguments of set: omitted, 0, one tick
CtxTtlArgs == {NoTtl, 0, 1}
\* the handle of the one MyContext of this specification
Self == 1

\* what one operation has dispatched so far: the invocations in order, the
\* number of dispatches begun, and whether the call stack ran out
NoCalls == [calls |-> <<>>, ndisp |-> 0, overflow |-> FALSE]

\* a dispatch that walks the callbacks last-registered first
HookOrderReversed(hs) == [i \in 1..Len(hs) |-> hs[Len(hs) + 1 - i]]

\* for (const hook of this.hooks[event]): array order
HookOrder(hs) == hs

\* a catch block that dispatches onError whatever the event was
RedispatchesAlways(kl, event) == TRUE

\* the catch block of triggerHooks dispatches onError: always in the ttl
\* class, only if (event !== 'onError') in the typed class
Redispatches(kl, event) == kl = "ttl" \/ event # "onError"

\* triggerHooks(event, ...args), begun with dispatch state st0, while the
\* object is c (what a callback sees of the storage).  thr is the
\* set of callbacks that throw when invoked.  A throw is caught, and the
\* onError dispatch it starts runs one frame deeper; recursion that never
\* ends exhausts the stack (overflow), and that error leaves every frame.
triggerHooks(kl, hk, thr, event, args, c, st0) ==
  LET RECURSIVE Run(_, _, _, _, _, _)
      Run(ev, a, d, i, depth, st) ==
        IF st.overflow \/ i > Len(hk[ev]) THEN st
        ELSE LET h == HookOrder(hk[ev])[i]
                 st1 == [st EXCEPT !.calls =
                           Append(@, [event |-> ev, hook |-> h, args |-> a,
                                      disp |-> d, threw |-> h \in thr,
                                      sees |-> c.storage])]
                 st2 == IF h \notin thr \/ ~Redispatches(kl, ev) THEN st1
                        ELSE IF depth >= MaxStack
                        THEN [st1 EXCEPT !.overflow = TRUE]
                        ELSE Run("onError", <<"error">>, st1.ndisp + 1, 1,
                                 depth + 1, [st1 EXCEPT !.ndisp = @ + 1])
             IN Run(ev, a, d, i + 1, depth, st2)
  IN Run(event, args, st0.ndisp + 1, 1, 1, [st0 EXCEPT !.ndisp = @ + 1])

\* the stack is unwound when a catch block of set/get starts its dispatch
Caught(st) == [st EXCEPT !.overflow = FALSE]

\* ---- ttl class: set(key, value, ttl) with its dispatches
\* sched: the call reached setTimeout
ttl_setOp(c, hk, thr, key, value, ttl) ==
  IF ~Truthy(value)
  THEN [c |-> c, st |-> NoCalls, threw |-> FALSE, result |-> Undefined,
        sched |-> FALSE]
  ELSE LET s1 == triggerHooks("ttl", hk, thr, "afterSet", <<key, value>>,
                            ttl_set(c, key, value, ttl), NoCalls)
           s2 == IF s1.overflow THEN s1
                 ELSE triggerHooks("ttl", hk, thr, "onSet", <<key, value>>,
                                   ttl_set(c, key, value, ttl), s1)
           s3 == IF s2.overflow
                 THEN triggerHooks("ttl", hk, thr, "onError", <<"error">>,
                                   ttl_set(c, key, value, ttl), Caught(s2))
                 ELSE s2
       IN [c |-> ttl_set(c, key, value, ttl), st |-> s3,
           threw |-> s3.overflow, result |-> Undefined,
           sched |-> ~s2.overflow /\ ttl_schedules(c, value, ttl)]

\* ---- ttl class: get(key) with its dispatches; a key that is neither live
\* nor in defaultValues throws inside the try block
ttl_getOp(c, hk, thr, key) ==
  LET s1 == triggerHooks("ttl", hk, thr, "beforeGet", <<key>>, c, NoCalls)
      found == MapHas(c.storage, key) \/ JsIn(key, c.defaultValues)
      s2 == IF s1.overflow \/ ~found
            THEN triggerHooks("ttl", hk, thr, "onError", <<"[Function]">>, c,
                              Caught(s1))
            ELSE s1
  IN [c |-> c, st |-> s2, threw |-> s2.overflow,
      result |-> IF ~s1.overflow /\ found THEN ttl_get(c, key) ELSE Undefined,
      sched |-> FALSE]

\* a clearKey that deletes the entry without telling the onClear callbacks
ttl_clearKeyOpSilent(c, hk, thr, key, st) ==
  [c |-> ttl_clearKey(c, key), st |-> st, threw |-> FALSE,
   result |-> Undefined, sched |-> FALSE]

\* ---- ttl class: clearKey(key), continuing dispatch state st
ttl_clearKeyOp(c, hk, thr, key, st) ==
  IF MapHas(c.storage, key)
  THEN LET s1 == triggerHooks("ttl", hk, thr, "onClear", <<key>>,
                            ttl_clearKey(c, key), st)
       IN [c |-> ttl_clearKey(c, key), st |-> s1, threw |-> s1.overflow,
           result |-> Undefined, sched |-> FALSE]
  ELSE [c |-> c, st |-> st, threw |-> FALSE, result |-> Undefined,
        sched |-> FALSE]

\* ---- ttl class: clear(key); Undefined stands for the omitted argument
ttl_clearOp(c, hk, thr, key) ==
  IF key = "*" \/ key = Undefined
  THEN LET s1 == triggerHooks("ttl", hk, thr, "onClear", <<>>, c, NoCalls)
       IN [c |-> IF s1.overflow THEN c ELSE ttl_clear(c, key), st |-> s1,
           threw |-> s1.overflow, result |-> Undefined, sched |-> FALSE]
  ELSE ttl_clearKeyOp(c, hk, thr, key, NoCalls)

\* a set that stores and dispatches whatever the value is
ctx_setOpNoGuard(c, hk, thr, key, value) ==
  LET c1 == [c EXCEPT !.storage = MapSet(@, key, value)]
      s1 == triggerHooks("typed", hk, thr, "afterSet", <<key, value>>, c1, NoCalls)
      s2 == IF s1.overflow THEN s1
            ELSE triggerHooks("typed", hk, thr, "onSet", <<key, value>>, c1, s1)
      s3 == IF s2.overflow
            THEN triggerHooks("typed", hk, thr, "onError", <<"error">>, c1, Caught(s2))
            ELSE s2
  IN [c |-> c1, st |-> s3, threw |-> s3.overflow, result |-> Undefined,
      sched |-> FALSE]

\* ---- typed class: set(key, value); an error that escapes a dispatch is
\* caught and dispatched to onError
ctx_setOp(c, hk, thr, key, value) ==
  IF value = Undefined
  THEN [c |-> c, st |-> NoCalls, threw |-> FALSE, result |-> Undefined,
        sched |-> FALSE]
  ELSE LET c1 == ctx_set(c, key, value)
           s1 == triggerHooks("typed", hk, thr, "afterSet", <<key, value>>, c1, NoCalls)
           s2 == IF s1.overflow THEN s1
                 ELSE triggerHooks("typed", hk, thr, "onSet", <<key, value>>, c1, s1)
           s3 == IF s2.overflow
                 THEN triggerHooks("typed", hk, thr, "onError", <<"error">>, c1, Caught(s2))
                 ELSE s2
       IN [c |-> c1, st |-> s3, threw |-> s3.overflow, result |-> Undefined,
           sched |-> FALSE]

\* ---- typed class: get(key)
ctx_getOp(c, hk, thr, key) ==
  LET s1 == triggerHooks("typed", hk, thr, "beforeGet", <<key>>, c, NoCalls)
      s2 == IF s1.overflow
            THEN triggerHooks("typed", hk, thr, "onError", <<"error">>, c, Caught(s1))
            ELSE s1
  IN [c |-> c, st |-> s2, threw |-> s2.overflow,
      result |-> IF s1.overflow THEN Undefined ELSE ctx_get(c, key),
      sched |-> FALSE]

\* ---- typed class: clearKey(key), continuing dispatch state st
ctx_clearKeyOp(c, hk, thr, key, st) ==
  IF MapHas(c.storage, key)
  THEN LET s1 == triggerHooks("typed", hk, thr, "onClear", <<key>>,
                              ctx_clearKey(c, key), st)
       IN [c |-> ctx_clearKey(c, key), st |-> s1, threw |-> s1.overflow,
           result |-> Undefined, sched |-> FALSE]
  ELSE [c |-> c, st |-> st, threw |-> FALSE, result |-> Undefined,
        sched |-> FALSE]

\* ---- typed class: clear(key): this.triggerHooks('onClear') comes first;
\* an omitted argument reaches clearKey(String(undefined))
ctx_clearOp(c, hk, thr, key) ==
  LET s1 == triggerHooks("typed", hk, thr, "onClear", <<>>, c, NoCalls)
  IN IF s1.overflow
     THEN [c |-> c, st |-> s1, threw |-> TRUE, result |-> Undefined,
           sched |-> FALSE]
     ELSE IF key = "*"
     THEN [c |-> ctx_clear(c, key), st |-> s1, threw |-> FALSE,
           result |-> Undefined, sched |-> FALSE]
     ELSE ctx_clearKeyOp(c, hk, thr, key, s1)

\* the class the program imported decides which method body runs
SetOp(kl, c, hk, thr, key, value, ttl) ==
  IF kl = "ttl" THEN ttl_setOp(c, hk, thr, key, value, ttl)
  ELSE ctx_setOp(c, hk, thr, key, value)
GetOp(kl, c, hk, thr, key) ==
  IF kl = "ttl" THEN ttl_getOp(c, hk, thr, key) ELSE ctx_getOp(c, hk, thr, key)
ClearOp(kl, c, hk, thr, key) ==
  IF kl = "ttl" THEN ttl_clearOp(c, hk, thr, key) ELSE ctx_clearOp(c, hk, thr, key)
ClearKeyOp(kl, c, hk, thr, key) ==
  IF kl = "ttl" THEN ttl_clearKeyOp(c, hk, thr, key, NoCalls)
  ELSE ctx_clearKeyOp(c, hk, thr, key, NoCalls)
\* what get(key) returns when no callback is registered
Get(kl, c, key) == IF kl = "ttl" THEN ttl_get(c, key) ELSE ctx_get(c, key)

\* history record of one operation: its arguments, the object before it,
\* what it returned or that it threw, and the callback invocations it made
Did(op, key, value, ttl, before, r) ==
  [op |-> op, key |-> key, value |-> value, ttl |-> ttl, at |-> now,
   before |-> before, result |-> r.result, threw |-> r.threw,
   calls |-> r.st.calls, sched |-> r.sched]

\* callbacks registered so far
HookIds == 1..nextHook

\* the choices of callbacks that throw during one operation: only callbacks
\* of the events the operation can dispatch are ever invoked
Throwers(evts) ==
  SUBSET {h \in HookIds : \E e \in evts : \E i \in 1..Len(hooks[e]) : hooks[e][i] = h}

\* options of new MyContext(options) that configure no global expiry
CtxConfigs == {cfg \in SessionConfigs : cfg.expiry = NoTtl}

\* const ctx = new MyContext(options), of a class among kls and with ttl-class
\* options among cfgs; no middleware is involved
InitObject(kls, cfgs) ==
  /\ klass \in kls
  /\ options \in IF klass = "ttl" THEN cfgs ELSE {FreshOptions}
  /\ heap = <<IF klass = "ttl" THEN ttl_new(options) ELSE ctx_new(options)>>
  /\ contextStore = EmptyMap
  /\ nextUuid = 0
  /\ pc = [r \in Requests |-> "new"]
  /\ cur = Idle
  /\ alsStore = NoContext
  /\ alsSaved = NoContext
  /\ reqContext = [r \in Requests |-> NoContext]
  /\ reqKey = [r \in Requests |-> Undefined]
  /\ headers = [r \in Requests |-> [xsid |-> Undefined, auth |-> Undefined]]
  /\ conts = {}
  /\ spawned = 0
  /\ listener = [r \in Requests |-> FALSE]
  /\ finished = [r \in Requests |-> FALSE]
  /\ timers = EmptyMap
  /\ lateKeys = [r \in Requests |-> {}]
  /\ lastSet = EmptyMap
  /\ created = EmptyMap
  /\ hooks = NoHooks
  /\ nextHook = 0
  /\ now = 0
  /\ pending = <<>>
  /\ last = NoOp
  /\ wrote = EmptyMap

\* event names that are not keys of this.hooks: an unknown name, and a name
\* that this.hooks inherits from Object.prototype
BadEvents == {"onGet", InheritedKey}

\* a hook() that finds an array to push onto under every name
HasPushAny(hk, event) == TRUE

\* this.hooks[event].push is callable: the own properties of this.hooks are
\* the five arrays; anything else is undefined or an inherited function
HasPush(hk, event) == event \in DOMAIN hk

\* a hook() that replaces the callbacks of the event by the new one
PushHookOnly(hk, event, id) ==
  [e \in (DOMAIN hk) \cup {event} |-> IF e = event THEN <<id>> ELSE hk[e]]

\* this.hooks[event].push(fn), fn being the id-th callback registered
PushHook(hk, event, id) ==
  [e \in (DOMAIN hk) \cup {event} |->
     IF e = event THEN Append(IF e \in DOMAIN hk THEN hk[e] ELSE <<>>, id)
     ELSE hk[e]]

\* ctx.hook(event, fn): this.hooks[event].push(fn); a TypeError leaves hook
\* when there is nothing to push onto
CtxHook(event) ==
  /\ nextHook < MaxHooks
  /\ IF HasPush(hooks, event)
     THEN /\ nextHook' = nextHook + 1
          /\ hooks' = PushHook(hooks, event, nextHook + 1)
     ELSE UNCHANGED <<nextHook, hooks>>
  /\ last' = [NoOp EXCEPT !.op = "hook", !.key = event, !.at = now,
                          !.threw = ~HasPush(hooks, event),
                          !.before = [storage |-> heap[Self].storage,
                                      hooks |-> hooks]]
  /\ UNCHANGED <<heap, mwVars, klass, now, pending, wrote>>

\* ctx.set(key, value, ttl); the typed class has no ttl parameter
CtxSet(key, value, ttl, thr) ==
  /\ klass = "typed" => ttl = NoTtl
  /\ LET r == SetOp(klass, heap[Self], hooks, thr, key, value, ttl)
     IN /\ r.sched => Len(pending) < MaxPending
        /\ heap' = [heap EXCEPT ![Self] = r.c]
        /\ pending' = IF r.sched
                      THEN Append(pending,
                                  [key |-> key,
                                   due |-> now + ttl_expiry(heap[Self], ttl)])
                      ELSE pending
        /\ last' = Did("set", key, value, ttl, heap[Self], r)
        /\ wrote' = IF value # Undefined /\ ttl > 0
                    THEN MapSet(wrote, key,
                                [value |-> value, ttl |-> ttl, at |-> now])
                    ELSE MapDelete(wrote, key)
  /\ UNCHANGED <<mwVars, klass, hooks, nextHook, now>>

\* ctx.get(key)
CtxGet(key, thr) ==
  /\ LET r == GetOp(klass, heap[Self], hooks, thr, key)
     IN last' = Did("get", key, Undefined, NoTtl, heap[Self], r)
  /\ UNCHANGED <<heap, mwVars, klass, hooks, nextHook, now, pending, wrote>>

\* ctx.clear(key), ctx.clear('*'), ctx.clear()
CtxClear(key, thr) ==
  /\ LET r == ClearOp(klass, heap[Self], hooks, thr, key)
     IN /\ heap' = [heap EXCEPT ![Self] = r.c]
        /\ last' = Did("clear", key, Undefined, NoTtl, heap[Self], r)
  /\ wrote' = IF key \in {"*", Undefined} THEN EmptyMap
              ELSE MapDelete(wrote, key)
  /\ UNCHANGED <<mwVars, klass, hooks, nextHook, now, pending>>

\* time passes
CtxTick ==
  /\ now < MaxTime
  /\ now' = now + 1
  /\ UNCHANGED <<heap, mwVars, klass, hooks, nextHook, pending, last, wrote>>

\* timer i is the next one the event loop runs: it is due, and no other
\* pending timer is due earlier or was scheduled earlier for the same time
NextTimer(i) ==
  /\ i \in 1..Len(pending)
  /\ pending[i].due <= now
  /\ \A j \in 1..Len(pending) :
       j # i => \/ pending[j].due > pending[i].due
                \/ pending[j].due = pending[i].due /\ j > i

\* the sequence without its i-th element
RemoveAt(q, i) == [j \in 1..(Len(q) - 1) |-> IF j < i THEN q[j] ELSE q[j + 1]]

\* setTimeout callback: this.clearKey(key)
CtxTimerFire(i, thr) ==
  /\ NextTimer(i)
  /\ LET r == ClearKeyOp(klass, heap[Self], hooks, thr, pending[i].key)
     IN /\ heap' = [heap EXCEPT ![Self] = r.c]
        /\ last' = Did("expire", pending[i].key, Undefined, NoTtl, heap[Self], r)
  /\ pending' = RemoveAt(pending, i)
  /\ UNCHANGED <<mwVars, klass, hooks, nextHook, now, wrote>>

\* ---- hooks, set, get and clear on an object without expiry
InitCtx == InitObject({"ttl", "typed"}, CtxConfigs)

NextCtx ==
  \/ \E e \in Events \cup BadEvents : CtxHook(e)
  \/ \E k \in CtxKeys, v \in {"v1", Falsy, Undefined},
        thr \in Throwers({"afterSet", "onSet", "onError"}) :
        CtxSet(k, v, NoTtl, thr)
  \/ \E k \in CtxKeys, thr \in Throwers({"beforeGet", "onError"}) :
        CtxGet(k, thr)
  \/ \E k \in CtxKeys \cup {"*", Undefined},
        thr \in Throwers({"onClear", "onError"}) : CtxClear(k, thr)

SpecCtx == InitCtx /\ [][NextCtx]_vars

\* ---- the ttl class under the clock: set with ttl, timers, no callbacks
\* keys that are set with a ttl
TtlKeys == {"k", DefaultKey}

InitTtl == InitObject({"ttl"}, SessionConfigs)

NextTtl ==
  \/ \E k \in TtlKeys, v \in {"v1", Falsy}, t \in CtxTtlArgs :
        CtxSet(k, v, t, {})
  \/ \E k \in TtlKeys : CtxGet(k, {})
  \/ \E k \in TtlKeys \cup {"*"} : CtxClear(k, {})
  \/ CtxTick
  \/ \E i \in 1..Len(pending) : CtxTimerFire(i, {})

SpecTtl == InitTtl /\ [][NextTtl]_vars

\* ======================================================== claims, SpecCtx
\* the object under test and its configured (own) defaults
Obj == heap[Self]
\* defaultValues[K] if K is one of the configured keys, absence otherwise
ConfiguredDefault(c, key) ==
  IF key \in DOMAIN c.defaultValues THEN c.defaultValues[key] ELSE Undefined

\* C11 (as claimed): in the ttl class, for every key K and every defined
\* value V -- the falsy ones included -- the state right after set(K, V) is
\* one in which get(K) returns V.
C11_SetThenGet ==
  (klass = "ttl" /\ last.op = "set" /\ last.value # Undefined /\ ~last.threw)
    => Get(klass, Obj, last.key) = last.value

\* C12: set(K, undefined) does not throw, leaves the object exactly as it
\* was, invokes no callback, schedules nothing, and every get returns what
\* it returned before the call.
C12_SetUndefinedIsNoOp ==
  (last.op = "set" /\ last.value = Undefined) =>
    /\ ~last.threw
    /\ Obj = last.before
    /\ last.calls = <<>>
    /\ ~last.sched
    /\ \A k \in CtxKeys : Get(klass, Obj, k) = Get(klass, last.before, k)

\* C12 witness: set(K, undefined) was called for a key holding a live value,
\* with afterSet and onSet callbacks registered
C12_Witness ==
  /\ last.op = "set" /\ last.value = Undefined
  /\ MapHas(Obj.storage, last.key)
  /\ hooks["afterSet"] # <<>> /\ hooks["onSet"] # <<>>

\* C13 (as claimed): get(K) for a key without live entry returns
\* defaultValues[K] when K is a configured key and undefined for every other
\* K, whatever its name.
C13_GetFallsBack ==
  (last.op = "get" /\ ~last.threw /\ ~MapHas(Obj.storage, last.key))
    => last.result = ConfiguredDefault(Obj, last.key)

\* the live value stored under key
LiveValue(kl, c, key) ==
  IF kl = "ttl" THEN c.storage[key].value ELSE c.storage[key]

\* C14 (as claimed): a live entry always shadows the default, and right
\* after clear(K) get(K) returns defaultValues[K] if K has a configured
\* default and absence otherwise.
C14_LiveShadowsDefault ==
  /\ \A k \in CtxKeys :
       MapHas(Obj.storage, k) => Get(klass, Obj, k) = LiveValue(klass, Obj, k)
  /\ (last.op = "clear" /\ last.key \in CtxKeys /\ ~last.threw)
       => Get(klass, Obj, last.key) = ConfiguredDefault(Obj, last.key)

\* C15 (as claimed): in the ttl class, after clear('*') and after clear() no
\* live entry is left, defaultValues is what it was, and get(K) returns the
\* configured default or absence for every K.
C15_ClearAllTtl ==
  (klass = "ttl" /\ last.op = "clear" /\ last.key \in {"*", Undefined}
     /\ ~last.threw)
    => /\ Obj.storage = EmptyMap
       /\ Obj.defaultValues = last.before.defaultValues
       /\ \A k \in CtxKeys : Get(klass, Obj, k) = ConfiguredDefault(Obj, k)

\* C16 (as claimed): in the typed class, clear() with no argument removes
\* every live entry, as clear('*') does.
C16_ClearNoArgTyped ==
  (klass = "typed" /\ last.op = "clear" /\ last.key = Undefined)
    => Obj.storage = EmptyMap

\* the invocations of event's callbacks among calls
CallsOf(calls, event) == SelectSeq(calls, LAMBDA x : x.event = event)

\* every callback of event was invoked exactly once, with args
OnceEach(calls, event, args) ==
  /\ Len(CallsOf(calls, event)) = Len(hooks[event])
  /\ \A i \in 1..Len(hooks[event]) :
       /\ CallsOf(calls, event)[i].hook = hooks[event][i]
       /\ CallsOf(calls, event)[i].args = args

\* C17 (as claimed): clear('*') and clear() invoke every onClear callback
\* once with no argument; clear(K) for a live K removes only K and invokes
\* every onClear callback once with K; clear(K) for a K without live entry
\* changes nothing and invokes no callback.
C17_OnClearDispatch ==
  (last.op = "clear" /\ ~last.threw) =>
    IF last.key \in {"*", Undefined}
    THEN OnceEach(last.calls, "onClear", <<>>)
    ELSE IF MapHas(last.before.storage, last.key)
    THEN /\ Obj.storage = MapDelete(last.before.storage, last.key)
         /\ OnceEach(last.calls, "onClear", <<last.key>>)
    ELSE /\ Obj = last.before
         /\ last.calls = <<>>

\* ======================================================== claims, SpecTtl
\* C18 (as claimed): after set(K, V, T) with T > 0, with no clear of K and no
\* later set of K, get(K) returns V at every time less than T after the call
\* (wrote[K] is the last such call; clear(K), clear-all and a later set of K
\* replace or drop it).
C18_LiveUntilTtl ==
  \A k \in DOMAIN wrote :
    now < wrote[k].at + wrote[k].ttl => Get(klass, Obj, k) = wrote[k].value

\* C19 (as claimed): a set that stores its value schedules the removal of K
\* after ttl whenever a ttl argument is given, 0 included; after globalExpiry
\* when ttl is omitted and a globalExpiry is configured; and schedules
\* nothing when neither is given.
C19_EffectiveExpiry ==
  (last.op = "set" /\ Truthy(last.value) /\ ~last.threw) =>
    LET delay == IF last.ttl # NoTtl THEN last.ttl
                 ELSE last.before.globalExpiry
    IN IF delay = NoTtl THEN ~last.sched
       ELSE /\ last.sched
            /\ pending # <<>>
            /\ pending[Len(pending)] = [key |-> last.key,
                                        due |-> last.at + delay]

\* ================================================= claims, SpecCtx (hooks)
\* the callbacks dispatch d of an operation invoked, in order of invocation
InvokedIn(calls, d) ==
  LET cs == SelectSeq(calls, LAMBDA x : x.disp = d)
  IN [i \in 1..Len(cs) |-> cs[i].hook]

\* C20: in every dispatch the callbacks of the event are invoked in the
\* order of their registration -- the invoked callbacks are an initial
\* piece of the event's registration sequence, the whole of it when the
\* operation returned -- also when a callback invoked earlier has thrown.
C20_RegistrationOrder ==
  \A n \in 1..Len(last.calls) :
    LET x == last.calls[n]
        inv == InvokedIn(last.calls, x.disp)
    IN /\ Len(inv) <= Len(hooks[x.event])
       /\ inv = SubSeq(hooks[x.event], 1, Len(inv))
       /\ \A i, j \in 1..Len(inv) : i < j => inv[i] < inv[j]
       /\ ~last.threw => inv = hooks[x.event]

\* C20 witness: a dispatch in which the callback registered first threw and
\* the one registered after it was invoked next
C20_Witness ==
  \E i, j \in 1..Len(last.calls) :
    /\ i < j
    /\ last.calls[i].disp = last.calls[j].disp
    /\ last.calls[i].threw
    /\ last.calls[i].hook < last.calls[j].hook

\* the value a get(key) made from inside a callback returns from live storage
SeenValue(kl, x, key) ==
  IF ~MapHas(x.sees, key) THEN Undefined
  ELSE IF kl = "ttl" THEN x.sees[key].value ELSE x.sees[key]

\* C21 (as claimed): every set(K, V) with a defined V stores the entry, then
\* invokes every afterSet callback and after them every onSet callback, each
\* once with (K, V), and a get(K) from inside any of them returns V.
C21_SetDispatch ==
  (last.op = "set" /\ last.value # Undefined /\ ~last.threw) =>
    /\ OnceEach(last.calls, "afterSet", <<last.key, last.value>>)
    /\ OnceEach(last.calls, "onSet", <<last.key, last.value>>)
    /\ \A i, j \in 1..Len(last.calls) :
         (last.calls[i].event = "onSet" /\ last.calls[j].event = "afterSet")
           => j < i
    /\ \A i \in 1..Len(last.calls) :
         last.calls[i].event \in {"afterSet", "onSet"}
           => SeenValue(klass, last.calls[i], last.key) = last.value

\* number of invocations of callback h among calls
CountHook(calls, h) == Len(SelectSeq(calls, LAMBDA x : x.hook = h))

\* number of invocations among calls in which a callback of an event other
\* than onError threw
CountThrows(calls) ==
  Len(SelectSeq(calls, LAMBDA x : x.threw /\ x.event # "onError"))

\* C22: in the typed class a throwing callback does not stop its dispatch
\* (every callback of the event is still invoked); every throw of a callback
\* of an event other than onError starts exactly one onError dispatch, which
\* invokes each onError callback once with the error; a throw of an onError
\* callback starts no dispatch.
C22_TypedErrorDispatch ==
  (klass = "typed" /\ last.op # "hook") =>
    /\ ~last.threw
    /\ \A n \in 1..Len(last.calls) :
         InvokedIn(last.calls, last.calls[n].disp) = hooks[last.calls[n].event]
    /\ \A i \in 1..Len(hooks["onError"]) :
         CountHook(last.calls, hooks["onError"][i])
           = CountThrows(last.calls)
    /\ \A n \in 1..Len(last.calls) :
         last.calls[n].event = "onError" => last.calls[n].args = <<"error">>

\* C22 witness: a callback of afterSet threw, the onError callback was
\* invoked for it and threw as well, and the dispatch ended there
C22_Witness ==
  /\ klass = "typed"
  /\ \E i, j \in 1..Len(last.calls) :
       /\ i < j
       /\ last.calls[i].event = "afterSet" /\ last.calls[i].threw
       /\ last.calls[j].event = "onError" /\ last.calls[j].threw
       /\ j = Len(last.calls)

\* C23 (as claimed): in the ttl class every operation terminates even when an
\* onError callback throws: such a throw starts no further onError dispatch,
\* so each onError callback is invoked at most once per throwing callback of
\* another event, and once more for a failure of the operation itself.
C23_OnErrorFinite ==
  (klass = "ttl" /\ last.op # "hook") =>
    /\ ~last.threw
    /\ \A i \in 1..Len(hooks["onError"]) :
         CountHook(last.calls, hooks["onError"][i])
           <= CountThrows(last.calls) + 1

\* C24 (as claimed): set, get and clear never throw to their caller,
\* whatever callbacks are registered and whether or not they throw.
C24_NeverThrows ==
  last.op \in {"set", "get", "clear"} => ~last.threw

\* C25: hook(E, fn) with E one of the five events appends fn at the end of
\* E's callback sequence and changes no other sequence; with any other E it
\* throws to the caller and leaves every sequence and the live storage as
\* they were.
C25_HookAppendsOrThrows ==
  last.op = "hook" =>
    /\ Obj.storage = last.before.storage
    /\ DOMAIN hooks = Events
    /\ IF last.key \in Events
       THEN /\ ~last.threw
            /\ hooks[last.key] = Append(last.before.hooks[last.key], nextHook)
            /\ \A e \in Events \ {last.key} : hooks[e] = last.before.hooks[e]
       ELSE /\ last.threw
            /\ hooks = last.before.hooks

\* C25 witness: with a callback already registered, hook was called with a
\* name that is no event
C25_Witness ==
  /\ last.op = "hook"
  /\ last.key \notin Events
  /\ \E e \in Events : hooks[e] # <<>>

\* C26 (as claimed): get(K) for a key with no live entry and no default
\* returns absence and, unless a beforeGet callback threw, invokes no onError
\* callback; every onError callback invoked by any operation receives the
\* error as its argument.
C26_MissingGetIsNoError ==
  /\ (/\ last.op = "get"
      /\ ~MapHas(last.before.storage, last.key)
      /\ ConfiguredDefault(last.before, last.key) = Undefined
      /\ ~last.threw)
       => /\ last.result = Undefined
          /\ ((\A n \in 1..Len(last.calls) : ~last.calls[n].threw)
                => CallsOf(last.calls, "onError") = <<>>)
  /\ \A n \in 1..Len(last.calls) :
       last.calls[n].event = "onError" => last.calls[n].args = <<"error">>

\* =================================================== claims, SpecSession
\* a getContext that only looks at the ambient store
getContextAmbientOnly(als, store, sessionId) == als

\* getContext(sessionId): context = asyncLocalStorage.getStore();
\* if (!context && sessionId && contextStore.has(sessionId))
\*   context = contextStore.get(sessionId); return context
getContext(als, store, sessionId) ==
  LET context == als
  IN IF context = NoContext /\ Truthy(sessionId) /\ MapHas(store, sessionId)
     THEN store[sessionId]
     ELSE context

\* identity keys a caller may pass to getContext: none, the empty string,
\* the keys requests can resolve to, and one that no request carries
LookupKeys == {Undefined, "", "A", "B", "default-session", "Z"}

\* C27: outside any bound extent getContext(key) returns the handle the
\* identity table holds for key when the key is known, which is the object
\* every request of that identity has as req.context, and absence when the
\* key is unknown or not given.
C27_GetContextLookup ==
  alsStore = NoContext =>
    \A sid \in LookupKeys :
      /\ getContext(alsStore, contextStore, sid) =
           IF sid # Undefined /\ sid \in DOMAIN contextStore
           THEN contextStore[sid] ELSE NoContext
      /\ \A r \in Requests :
           (sid # Undefined /\ reqKey[r] = sid /\ reqContext[r] # NoContext)
             => getContext(alsStore, contextStore, sid) = reqContext[r]

\* C27 witness: no extent is bound, a request of identity "A" has returned,
\* and getContext("A") is its req.context while "B" is unknown
C27_Witness ==
  /\ alsStore = NoContext
  /\ cur = Idle
  /\ \E r \in Requests :
       /\ reqKey[r] = "A"
       /\ pc[r] \notin {"new", "pre", "next"}
       /\ getContext(alsStore, contextStore, "A") = reqContext[r]
       /\ reqContext[r] # NoContext
  /\ getContext(alsStore, contextStore, "B") = NoContext
  /\ getContext(alsStore, contextStore, Undefined) = NoContext

\* ============================================ shared-instance middleware
\* the one MyContext the application constructs and hands to
\* contextMiddleware(defaultCtx)
defaultCtx == Self

\* keys the routes of the application set and clear
SharedKeys == UserKeys \cup {DefaultKey}

\* const defaultCtx = new MyContext({ defaultValues, expiry });
\* app.use(contextMiddleware(defaultCtx))
InitShared == InitObject({"ttl"}, SessionConfigs)

\* (req, res, next) => { asyncLocalStorage.run(defaultCtx, () => {
\*   req.context = defaultCtx; next() ...   up to the call of next()
SharedMiddleware(r) ==
  /\ cur = [req |-> r, kind |-> "pre"]
  /\ alsSaved' = alsStore
  /\ alsStore' = defaultCtx
  /\ reqContext' = [reqContext EXCEPT ![r] = defaultCtx]
  /\ pc' = [pc EXCEPT ![r] = "next"]
  /\ cur' = [req |-> r, kind |-> "next"]
  /\ UNCHANGED <<heap, contextStore, nextUuid, reqKey, headers, conts,
                 spawned, listener, finished, timers, options, lateKeys,
                 lastSet, created, libVars>>

\* next() returned or threw: run() restores the store and the middleware
\* returns or lets the exception through
SharedNextExit(r, threw) ==
  /\ cur = [req |-> r, kind |-> "next"]
  /\ alsStore' = AlsRunExit(alsSaved, alsStore, threw)
  /\ pc' = [pc EXCEPT ![r] = "returned"]
  /\ cur' = [req |-> r, kind |-> "caller"]
  /\ UNCHANGED <<heap, contextStore, nextUuid, alsSaved, reqContext, reqKey,
                 headers, conts, spawned, listener, finished, timers, options,
                 lateKeys, lastSet, created, libVars>>

\* a route handler or its continuation: req.context.set(key, value, ttl)
SharedAppSet(key, value, ttl) ==
  /\ InExtent
  /\ useContext # NoContext
  /\ LET r == SetOp(klass, heap[useContext], hooks, {}, key, value, ttl)
     IN /\ r.sched => TimerCount(timers) < MaxTimers
        /\ heap' = [heap EXCEPT ![useContext] = r.c]
        /\ timers' = IF r.sched THEN TimerAdd(timers, useContext, key)
                     ELSE timers
        /\ last' = Did("set", key, value, ttl, heap[useContext], r)
  /\ lastSet' = MapSet(lastSet, key, value)
  /\ UNCHANGED <<contextStore, nextUuid, pc, cur, alsStore, alsSaved,
                 reqContext, reqKey, headers, conts, spawned, listener,
                 finished, options, lateKeys, created, klass, hooks,
                 nextHook, now, pending, wrote>>

\* a route handler or its continuation: req.context.clear(key)
SharedAppClear(key) ==
  /\ InExtent
  /\ useContext # NoContext
  /\ LET r == ClearOp(klass, heap[useContext], hooks, {}, key)
     IN /\ heap' = [heap EXCEPT ![useContext] = r.c]
        /\ last' = Did("clear", key, Undefined, NoTtl, heap[useContext], r)
  /\ lastSet' = IF key = "*" THEN EmptyMap ELSE MapDelete(lastSet, key)
  /\ UNCHANGED <<contextStore, nextUuid, pc, cur, alsStore, alsSaved,
                 reqContext, reqKey, headers, conts, spawned, listener,
                 finished, timers, options, lateKeys, created, klass, hooks,
                 nextHook, now, pending, wrote>>

\* the event loop runs a timer that a set on defaultCtx scheduled:
\* this.clearKey(key); the onClear callbacks in thr throw
SharedTimerFire(key, thr) ==
  /\ cur = Idle
  /\ MapHas(timers, <<defaultCtx, key>>)
  /\ timers' = TimerDrop(timers, defaultCtx, key)
  /\ LET r == ClearKeyOp(klass, heap[defaultCtx], hooks, thr, key)
     IN /\ heap' = [heap EXCEPT ![defaultCtx] = r.c]
        /\ last' = Did("expire", key, Undefined, NoTtl, heap[defaultCtx], r)
  /\ lastSet' = IF MapHas(heap[defaultCtx].storage, key)
                THEN MapDelete(lastSet, key) ELSE lastSet
  /\ UNCHANGED <<contextStore, nextUuid, pc, cur, alsStore, alsSaved,
                 reqContext, reqKey, headers, conts, spawned, listener,
                 finished, options, lateKeys, created, klass, hooks,
                 nextHook, now, pending, wrote>>

NextShared ==
  \/ \E r \in Requests : Arrive(r)
  \/ \E r \in Requests : SharedMiddleware(r)
  \/ \E r \in Requests, threw \in BOOLEAN : SharedNextExit(r, threw)
  \/ \E k \in SharedKeys, v \in {ValueOf(cur.req), Falsy}, t \in TtlArgs :
        SharedAppSet(k, v, t)
  \/ \E k \in SharedKeys \cup {"*"} : SharedAppClear(k)
  \/ CtxHook("onClear")
  \/ \E k \in SharedKeys, thr \in Throwers({"onClear"}) :
        SharedTimerFire(k, thr)
  \/ AppSpawn
  \/ \E c \in conts : RunCont(c)
  \/ EndCont
  \/ CallerDone

SpecShared == InitShared /\ [][NextShared]_vars

\* ===================================================== claims, SpecShared
\* C28 (as claimed): every request binds the one supplied MyContext as
\* req.context and as the ambient context, and for every key the value of
\* the latest set that was not cleared or expired since -- whichever request
\* made it -- is what get returns in every request.
C28_SharedLastSetWins ==
  /\ \A r \in Requests :
       pc[r] \in {"next", "returned"} => reqContext[r] = defaultCtx
  /\ InExtent => useContext = defaultCtx
  /\ \A k \in DOMAIN lastSet : Get(klass, heap[defaultCtx], k) = lastSet[k]

\* ================================================ claims, SpecTtl (timers)
\* one step leaves the pending timers alone, adds one at the end, or runs
\* the one that is due, which leaves its key without live entry
TimersOnlyFire ==
  \/ pending' = pending
  \/ /\ Len(pending') = Len(pending) + 1
     /\ SubSeq(pending', 1, Len(pending)) = pending
  \/ \E i \in 1..Len(pending) :
       /\ NextTimer(i)
       /\ pending' = RemoveAt(pending, i)
       /\ last'.op = "expire" /\ last'.key = pending[i].key
       /\ ~MapHas(heap'[Self].storage, pending[i].key)

\* C29 (as claimed): every set(K, V, ...) of a defined value whose effective
\* expiry (the ttl argument, else globalExpiry) is given schedules a removal
\* of K due that much later; no later set, clear or other step removes a
\* pending removal, and when it runs K has no live entry afterwards.
C29_TimersNeverCancelled ==
  /\ []((last.op = "set" /\ last.value # Undefined
          /\ ttl_expiry(last.before, last.ttl) # NoTtl)
         => /\ last.sched
            /\ pending # <<>>
            /\ pending[Len(pending)] =
                 [key |-> last.key,
                  due |-> last.at + ttl_expiry(last.before, last.ttl)])
  /\ [][TimersOnlyFire]_vars

\* C30: a scheduled removal runs whatever the state of the requests is, and
\* acts on the live storage of that moment: if K has a live entry, exactly
\* that entry is removed and every onClear callback is invoked once with K;
\* if K has none, nothing changes and no callback is invoked.
C30_ExpiryActsOnLiveStorage ==
  last.op = "expire" =>
    /\ ~last.threw
    /\ IF MapHas(last.before.storage, last.key)
       THEN /\ heap[defaultCtx].storage =
                 MapDelete(last.before.storage, last.key)
            /\ OnceEach(last.calls, "onClear", <<last.key>>)
            /\ Len(last.calls) = Len(hooks["onClear"])
       ELSE /\ heap[defaultCtx] = last.before
            /\ last.calls = <<>>

\* C30 witness: the only request that ever arrived has returned and left no
\* asynchronous work behind; the removal its set scheduled then ran, removed
\* the live entry and invoked the onClear callback
C30_Witness ==
  /\ last.op = "expire"
  /\ MapHas(last.before.storage, last.key)
  /\ last.calls # <<>>
  /\ cur = Idle /\ spawned = 0
  /\ \E r \in Requests :
       pc[r] = "returned" /\ \A q \in Requests \ {r} : pc[q] = "new"

\* ============================================ claims, SpecTtl (permanence)
\* key has a live entry that was stored without effective expiry
Permanent(c, key) ==
  MapHas(c.storage, key) /\ c.storage[key].expiry = NoTtl

\* the step removed or replaced the live entry of key
EntryGone(key) ==
  ~MapHas(heap'[Self].storage, key)
    \/ heap'[Self].storage[key] # heap[Self].storage[key]

\* the step was set(key, .), clear(key) or a clear-all
SetOrClearOf(key) ==
  \/ last'.op \in {"set", "clear"} /\ last'.key = key
  \/ last'.op = "clear" /\ last'.key \in {"*", Undefined}

\* C31 (as claimed): a live entry stored without effective expiry is
\* returned by get(K) and leaves the storage only by a set(K, .), a clear(K)
\* or a clear-all.
C31_PermanentUntilSetOrClear ==
  /\ [](\A k \in TtlKeys :
          Permanent(Obj, k) => Get(klass, Obj, k) = Obj.storage[k].value)
  /\ [][\A k \in TtlKeys :
          (Permanent(Obj, k) /\ EntryGone(k)) => SetOrClearOf(k)]_vars

\* C31 (amended): a live entry stored without effective expiry is returned
\* by get(K) and leaves the storage only by a set(K, .), a clear(K), a
\* clear-all, or the run of a removal of K that was still pending from an
\* earlier set(K, .) with an effective expiry.
C31_PermanentUntilStaleTimer ==
  /\ [](\A k \in TtlKeys :
          Permanent(Obj, k) => Get(klass, Obj, k) = Obj.storage[k].value)
  /\ [][\A k \in TtlKeys :
          (Permanent(Obj, k) /\ EntryGone(k)) =>
             \/ SetOrClearOf(k)
             \/ /\ last'.op = "expire" /\ last'.key = k
                /\ \E i \in 1..Len(pending) :
                     /\ pending[i].key = k /\ pending[i].due <= now
                     /\ pending' = RemoveAt(pending, i)]_vars

\* C31 witness: the removal left pending by an earlier set of the key ran
\* and took away an entry that had been stored without expiry
C31_Witness ==
  /\ last.op = "expire"
  /\ Permanent(last.before, last.key)
  /\ ~MapHas(Obj.storage, last.key)

\* ============================================ claims, SpecSession (later)
\* get('sessionId') on the handle of identity sid returns sid
ReadsOwnId(hp, sid) ==
  Get(klass, hp[contextStore[sid]], "sessionId") = sid

\* request r is inside its extent or has a suspended part of it yet to run
ExtentOpen(r) ==
  \/ cur.req = r /\ InExtent
  \/ \E c \in conts : c.req = r

\* C32 (as claimed): the middleware leaves get('sessionId') on the bound
\* handle equal to the request's identity key, and while the extent of a
\* request of that identity is running or suspended only a clear by
\* application code ends that: no other step, with or without globalExpiry,
\* changes what get('sessionId') returns.
C32_SessionIdStays ==
  /\ [][\A r \in Requests :
          SessionMiddleware(r) =>
            Get(klass, heap'[reqContext'[r]], "sessionId") = reqKey'[r]]_vars
  /\ [][\A r \in Requests :
          (/\ ExtentOpen(r)
           /\ ReadsOwnId(heap, reqKey[r])
           /\ ~ReadsOwnId(heap', reqKey[r]))
            => SessionAppClear("*")]_vars

\* ================= several session-reuse middleware instances, one process
\* contextConfig objects the instances are created with: one with a default
\* for DefaultKey and one with a default for another key, both without expiry
MultiConfigs ==
  {[defaultValues |-> [x \in {DefaultKey} |-> "d"], expiry |-> NoTtl],
   [defaultValues |-> [x \in {"other"} |-> "o"], expiry |-> NoTtl]}

\* options[r] is the contextConfig of the middleware instance (the app) that
\* request r is sent to; contextStore is one module-level Map for all of them
InitMulti ==
  /\ InitCommon
  /\ options \in [Requests -> MultiConfigs]
  /\ klass = "ttl"

\* the stage of the instance that handles request r
MultiMiddleware(r) == contextMiddleware(r, options[r])

NextMulti ==
  \/ \E r \in Requests, x \in XsidValues, a \in AuthValues : ArriveSession(r, x, a)
  \/ \E r \in Requests : MultiMiddleware(r)
  \/ \E r \in Requests, threw \in BOOLEAN : SessionNextExit(r, threw)
  \/ \E k \in UserKeys \cup {DefaultKey}, v \in {ValueOf(cur.req), Falsy} :
        SessionAppSet(k, v, NoTtl)
  \/ \E k \in UserKeys \cup {DefaultKey, "*"} : SessionAppClear(k)
  \/ CallerDone

SpecMulti == InitMulti /\ [][NextMulti]_vars

\* ====================================================== claims, SpecMulti
\* C33 (as claimed): for every request handled by an instance configured
\* with defaultValues D, get(K) on the bound handle returns D[K] for every
\* key K of D without live entry, whatever other instances have handled.
C33_DefaultsOfOwnInstance ==
  \A r \in Requests :
    Bound(r) =>
      \A k \in DOMAIN options[r].defaultValues :
        ~MapHas(heap[reqContext[r]].storage, k) =>
          Get(klass, heap[reqContext[r]], k) = options[r].defaultValues[k]

\* ========================================= claims, SpecSession (getContext)
\* the earlier session-mode getContext(sessionId):
\* context = asyncLocalStorage.getStore();
\* if (sessionId && contextStore.has(sessionId))
\*   return contextStore.get(sessionId); return context
getContextEarlier(als, store, sessionId) ==
  LET context == als
  IN IF Truthy(sessionId) /\ MapHas(store, sessionId) THEN store[sessionId]
     ELSE context

\* C34 (as claimed): inside a bound extent both versions of getContext
\* return the bound handle whatever sessionId is passed, also one that names
\* another known identity.
C34_BoundContextWins ==
  (InExtent /\ useContext # NoContext) =>
    \A sid \in LookupKeys :
      /\ getContext(alsStore, contextStore, sid) = useContext
      /\ getContextEarlier(alsStore, contextStore, sid) = useContext

\* ================================================ claims, SpecCtx (later)
\* C35 (as claimed): every get(K) invokes each beforeGet callback exactly
\* once with K, and whether or not one of them throws, get returns what it
\* returns with no beforeGet callback registered.
C35_BeforeGetObservesOnly ==
  last.op = "get" =>
    /\ OnceEach(last.calls, "beforeGet", <<last.key>>)
    /\ ~last.threw
    /\ last.result = Get(klass, last.before, last.key)

\* C36 (as claimed): while an onClear callback of a clear runs, no entry
\* that this clear removes is in the live storage any more.
C36_ClearedBeforeOnClear ==
  last.op \in {"clear", "expire"} =>
    \A n \in 1..Len(last.calls) :
      last.calls[n].event = "onClear" =>
        \A k \in (DOMAIN last.before.storage) \ (DOMAIN Obj.storage) :
          ~MapHas(last.calls[n].sees, k)

\* ====================== dispatch with callbacks that register callbacks
\* invocations of one dispatch after which the model stops following a loop
\* that has not ended
MaxLoop == 4

\* what get() never returning is recorded as
NeverReturns == "never returns"

\* for (const hook of this.hooks[event]) hook(...args): the array iterator
\* reads this.hooks[event] afresh at every step, so an element pushed while
\* the loop runs is visited too.  A callback in regNew calls
\* this.hook(event, g) with a new function g when invoked, one in regSelf
\* calls this.hook(event, itself); fresh is the number of functions so far.
LiveLoop(arr0, fresh0, regNew, regSelf) ==
  LET RECURSIVE Run(_, _, _, _)
      Run(arr, i, fresh, calls) ==
        IF i > Len(arr)
        THEN [arr |-> arr, fresh |-> fresh, calls |-> calls, ended |-> TRUE]
        ELSE IF Len(calls) >= MaxLoop
        THEN [arr |-> arr, fresh |-> fresh, calls |-> calls, ended |-> FALSE]
        ELSE LET h == arr[i]
             IN IF h \in regSelf
                THEN Run(Append(arr, h), i + 1, fresh, Append(calls, h))
                ELSE IF h \in regNew
                THEN Run(Append(arr, fresh + 1), i + 1, fresh + 1,
                         Append(calls, h))
                ELSE Run(arr, i + 1, fresh, Append(calls, h))
  IN Run(arr0, 1, fresh0, <<>>)

\* ctx.get(key) while the beforeGet callbacks in regNew and regSelf register
\* a beforeGet callback when they are invoked
CtxGetRegistering(key, regNew, regSelf) ==
  /\ regNew \cap regSelf = {}
  /\ Len(hooks["beforeGet"]) <= MaxHooks
  /\ LET r == LiveLoop(hooks["beforeGet"], nextHook, regNew, regSelf)
     IN /\ hooks' = [hooks EXCEPT !["beforeGet"] = r.arr]
        /\ nextHook' = r.fresh
        /\ last' = [NoOp EXCEPT
                      !.op = "get", !.key = key, !.at = now,
                      !.before = [storage |-> heap[Self].storage,
                                  hooks |-> hooks],
                      !.calls = r.calls,
                      !.result = IF r.ended THEN Get(klass, heap[Self], key)
                                 ELSE NeverReturns]
  /\ UNCHANGED <<heap, mwVars, klass, now, pending, wrote>>

\* the beforeGet callbacks registered so far
BeforeGetIds == {hooks["beforeGet"][i] : i \in 1..Len(hooks["beforeGet"])}

InitReg == InitObject({"ttl", "typed"}, CtxConfigs)

NextReg ==
  \/ \E e \in Events : CtxHook(e)
  \/ \E k \in CtxKeys, v \in {"v1"} : CtxSet(k, v, NoTtl, {})
  \/ \E k \in CtxKeys, regNew \in SUBSET BeforeGetIds,
        regSelf \in SUBSET BeforeGetIds : CtxGetRegistering(k, regNew, regSelf)

SpecReg == InitReg /\ [][NextReg]_vars

\* ======================================================== claims, SpecReg
\* C37 (as claimed): a dispatch invokes exactly the callbacks registered for
\* its event when it began, each once and in order, and then ends; callbacks
\* registered while it runs are not invoked by it.
C37_DispatchOverSnapshot ==
  last.op = "get" =>
    /\ last.result # NeverReturns
    /\ last.calls = last.before.hooks["beforeGet"]

\* ================================================= claims, SpecTtl (frame)
\* C38: set(K, .), clear(K) and the expiry of K leave the live entry of
\* every key other than K as it was, and no operation -- clear-all and get
\* included -- changes defaultValues.
C38_OnlyOwnKeyChanges ==
  /\ Obj.defaultValues = options.defaultValues
  /\ (last.op \in {"set", "clear", "expire"} /\ last.key # "*") =>
       \A k \in TtlKeys \ {last.key} :
         /\ MapHas(Obj.storage, k) = MapHas(last.before.storage, k)
         /\ MapHas(Obj.storage, k) => Obj.storage[k] = last.before.storage[k]

\* C38 witness: the entry of one key expired while another key had a live
\* entry, which is still there
C38_Witness ==
  /\ last.op = "expire"
  /\ MapHas(last.before.storage, last.key)
  /\ ~MapHas(Obj.storage, last.key)
  /\ \E k \in TtlKeys \ {last.key} : MapHas(Obj.storage, k)

\* ================================ session-reuse middleware with callbacks
\* handles the model can create: at most one per request
Handles == 1..NumRequests

\* x-session-id values of the requests: none (the default identity) or "A"
HookXsidValues == {Undefined, "A"}

\* as InitSession, with an empty hooks object for each handle to come: here
\* hooks[h] is the hooks field of handle h, and wrote[id] the request during
\* which callback id was registered
InitHooks ==
  /\ heap = <<>>
  /\ contextStore = EmptyMap
  /\ nextUuid = 0
  /\ pc = [r \in Requests |-> "new"]
  /\ cur = Idle
  /\ alsStore = NoContext
  /\ alsSaved = NoContext
  /\ reqContext = [r \in Requests |-> NoContext]
  /\ reqKey = [r \in Requests |-> Undefined]
  /\ headers = [r \in Requests |-> [xsid |-> Undefined, auth |-> Undefined]]
  /\ conts = {}
  /\ spawned = 0
  /\ listener = [r \in Requests |-> FALSE]
  /\ finished = [r \in Requests |-> FALSE]
  /\ timers = EmptyMap
  /\ lateKeys = [r \in Requests |-> {}]
  /\ lastSet = EmptyMap
  /\ created = EmptyMap
  /\ options \in SessionConfigs
  /\ klass = "ttl"
  /\ hooks = [h \in Handles |-> NoHooks]
  /\ nextHook = 0
  /\ now = 0
  /\ pending = <<>>
  /\ last = NoOp
  /\ wrote = EmptyMap

\* history record of an operation request r made on handle h
DidOn(h, r, rec) ==
  [f \in (DOMAIN rec) \cup {"handle", "by"} |->
     IF f = "handle" THEN h ELSE IF f = "by" THEN r ELSE rec[f]]

\* application code in the extent: getContext().hook('onClear', fn)
SessionAppHook ==
  /\ InExtent
  /\ useContext # NoContext
  /\ nextHook < MaxHooks
  /\ nextHook' = nextHook + 1
  /\ hooks' = [hooks EXCEPT
                 ![useContext] = PushHook(@, "onClear", nextHook + 1)]
  /\ wrote' = MapSet(wrote, nextHook + 1, cur.req)
  /\ last' = DidOn(useContext, cur.req,
                   [NoOp EXCEPT !.op = "hook", !.key = "onClear"])
  /\ UNCHANGED <<heap, mwVars, klass, now, pending>>

\* application code in the extent: getContext().clear(key), with the
\* callbacks of the bound handle
SessionAppClearHooks(key) ==
  /\ InExtent
  /\ useContext # NoContext
  /\ LET r == ClearOp(klass, heap[useContext], hooks[useContext], {}, key)
     IN /\ heap' = [heap EXCEPT ![useContext] = r.c]
        /\ last' = DidOn(useContext, cur.req,
                         Did("clear", key, Undefined, NoTtl,
                             heap[useContext], r))
  /\ lastSet' = NoteClear(lastSet, useContext,
                          IF key = "*" THEN DOMAIN heap[useContext].storage
                          ELSE {key})
  /\ UNCHANGED <<contextStore, nextUuid, pc, cur, alsStore, alsSaved,
                 reqContext, reqKey, headers, conts, spawned, listener,
                 finished, timers, options, lateKeys, created, klass, hooks,
                 nextHook, now, pending, wrote>>

\* a timer scheduled by a set on handle h fires: this.clearKey(key), with
\* the callbacks of h
TimerFireHooks(h, key) ==
  /\ cur = Idle
  /\ MapHas(timers, <<h, key>>)
  /\ timers' = TimerDrop(timers, h, key)
  /\ LET r == ClearKeyOp(klass, heap[h], hooks[h], {}, key)
     IN /\ heap' = [heap EXCEPT ![h] = r.c]
        /\ last' = DidOn(h, cur.req,
                         Did("expire", key, Undefined, NoTtl, heap[h], r))
  /\ lastSet' = IF MapHas(heap[h].storage, key)
                THEN NoteClear(lastSet, h, {key}) ELSE lastSet
  /\ UNCHANGED <<contextStore, nextUuid, pc, cur, alsStore, alsSaved,
                 reqContext, reqKey, headers, conts, spawned, listener,
                 finished, options, lateKeys, created, klass, hooks,
                 nextHook, now, pending, wrote>>

NextHooks ==
  \/ \E r \in Requests, x \in HookXsidValues : ArriveSession(r, x, Undefined)
  \/ \E r \in Requests : SessionMiddleware(r)
  \/ \E r \in Requests, threw \in BOOLEAN : SessionNextExit(r, threw)
  \/ \E k \in UserKeys : SessionAppSet(k, ValueOf(cur.req), NoTtl)
  \/ SessionAppHook
  \/ \E k \in UserKeys \cup {"sessionId", "*"} : SessionAppClearHooks(k)
  \/ \E tk \in DOMAIN timers : TimerFireHooks(tk[1], tk[2])
  \/ CallerDone

SpecHooks == InitHooks /\ [][NextHooks]_vars

\* ====================================================== claims, SpecHooks
\* a is an initial part of b
IsPrefix(a, b) == Len(a) <= Len(b) /\ SubSeq(b, 1, Len(a)) = a

\* the callbacks an operation invoked, in order of invocation
Invoked(calls) == [i \in 1..Len(calls) |-> calls[i].hook]

\* C39: no step removes or reorders a registered callback: every callback
\* sequence of every handle only grows at its end; requests of one identity
\* bind one handle; and a clear or expiry that removes something invokes all
\* onClear callbacks registered on its handle so far, whichever request
\* registered them.
C39_CallbacksOnlyGrow ==
  /\ [][\A h \in Handles : \A e \in Events :
          IsPrefix(hooks[h][e], hooks'[h][e])]_vars
  /\ [](\A r1, r2 \in Requests :
          (Bound(r1) /\ Bound(r2) /\ reqKey[r1] = reqKey[r2])
            => reqContext[r1] = reqContext[r2])
  /\ []((/\ last.op \in {"clear", "expire"}
         /\ (last.key = "*" \/ MapHas(last.before.storage, last.key)))
        => Invoked(last.calls) = hooks[last.handle]["onClear"])

\* C39 witness: a clear made by one request invoked a callback that was
\* registered during another request of the same identity
C39_Witness ==
  /\ last.op = "clear"
  /\ \E n \in 1..Len(last.calls) : wrote[last.calls[n].hook] # last.by

====
